---- MODULE Spec2Model ----
(***************************************************************************)
(* SLIP link layer of slip.py: Enlace (framing, byte stuffing, stream      *)
(* reassembly) and CamadaEnlace (routing by next hop, upward fan-in).      *)
(* Byte strings are sequences of integers 0..255; a handler is named by a  *)
(* string, "None" standing for Python's None.                              *)
(***************************************************************************)
EXTENDS Integers, Sequences, FiniteSets, TLC

\* ---------------------------------------------------------------- constants
END == 192
ESC == 219
ESC_END == 220
ESC_ESC == 221

None == "None"

\* Mutant: the constructor registers nothing on its Enlaces.
FanIn_ausente == "None"

\* The bound method CamadaEnlace._callback, as registered on every Enlace of
\* a CamadaEnlace.
FanIn == "_callback"

\* ------------------------------------------------------------------- bounds
\* Longest datagram handed to enviar.
MaxDatagrama == 2
\* Most bytes written to the serial line that joins two Enlaces.
MaxFio == 8
\* Longest chunk of arbitrary bytes handed to __raw_recv.
MaxChunk == 2
\* Most arbitrary bytes a stand-alone Enlace accepts.
MaxFluxo == 5
\* Most arbitrary bytes the Enlaces of a CamadaEnlace accept, all together.
MaxFluxoCamada == 4

\* Byte values: the four protocol bytes and ordinary payload bytes.
Bytes == {END, ESC, ESC_END, ESC_ESC}
BytesFio == {END, ESC, ESC_END, ESC_ESC, 1}
BytesCamada == {END, 1}

RECURSIVE SeqsAte(_, _)
SeqsAte(S, n) ==
    IF n = 0 THEN {<<>>}
    ELSE LET menores == SeqsAte(S, n - 1)
         IN menores \cup {Append(s, b) : s \in {t \in menores : Len(t) = n - 1}, b \in S}

\* Worked inputs of the specification's examples.
ExemploDatagrama == <<1, END, 2>>
ExemploChunk == <<END, END, END, 65, END>>
\* A chunk that completes two frames, one of them with an escape sequence.
DoisQuadros == <<ESC, ESC_END, END, ESC_ESC, END>>
DoisQuadrosCamada == <<1, END, 1, END>>

Datagramas == SeqsAte(BytesFio, MaxDatagrama) \cup {ExemploDatagrama}
Chunks == SeqsAte(Bytes, MaxChunk) \cup {ExemploChunk, DoisQuadros}
BytesConc == {END, 1, 2}
ChunksConc == SeqsAte(BytesConc, MaxChunk)
ChunksCamada == SeqsAte(BytesCamada, MaxChunk) \cup {DoisQuadrosCamada}

\* --------------------------------------------------- bytes.replace / split
\* bytes.replace(old, new): left to right, non-overlapping occurrences.
RECURSIVE Replace(_, _, _)
Replace(s, old, new) ==
    IF Len(s) < Len(old) THEN s
    ELSE IF SubSeq(s, 1, Len(old)) = old
         THEN new \o Replace(SubSeq(s, Len(old) + 1, Len(s)), old, new)
         ELSE <<s[1]>> \o Replace(Tail(s), old, new)

\* bytes.split(sep) for a one-byte separator: always at least one segment.
RECURSIVE Split(_, _)
Split(s, sep) ==
    IF \A i \in 1..Len(s) : s[i] # sep THEN <<s>>
    ELSE LET i == CHOOSE k \in 1..Len(s) : s[k] = sep /\ \A j \in 1..(k - 1) : s[j] # sep
         IN <<SubSeq(s, 1, i - 1)>> \o Split(SubSeq(s, i + 1, Len(s)), sep)

\* ------------------------------------------------------------ Enlace.enviar
\* Mutant: END is stuffed before ESC, so the ESC of an escaped END is stuffed again.
datagrama_escapado_invertido(datagrama) ==
    Replace(Replace(datagrama, <<END>>, <<ESC, ESC_END>>), <<ESC>>, <<ESC, ESC_ESC>>)

\* Mutant: ESC is not stuffed.
datagrama_escapado_so_end(datagrama) == Replace(datagrama, <<END>>, <<ESC, ESC_END>>)

\* Byte stuffing: ESC first, then END, each by ESC and its escape code.
datagrama_escapado(datagrama) ==
    Replace(Replace(datagrama, <<ESC>>, <<ESC, ESC_ESC>>), <<END>>, <<ESC, ESC_END>>)

\* The frame handed to the serial line.
quadro(datagrama) == <<END>> \o datagrama_escapado(datagrama) \o <<END>>

\* Mutant: a failed call of the serial line's enviar is made once more.
linha_serial_enviar_de_novo(e, q, ok) ==
    [envios |-> IF ok THEN <<[enlace |-> e, quadro |-> q]>>
                ELSE <<[enlace |-> e, quadro |-> q], [enlace |-> e, quadro |-> q]>>,
     erro |-> IF ok THEN "nenhum" ELSE "TransportError"]

\* self.linha_serial.enviar(quadro), the last statement of Enlace.enviar: the
\* calls made of the serial line of e, and the error that leaves enviar when
\* the line's enviar raises (ok false).
linha_serial_enviar(e, q, ok) ==
    [envios |-> <<[enlace |-> e, quadro |-> q]>>,
     erro |-> IF ok THEN "nenhum" ELSE "TransportError"]

\* -------------------------------------------------------- Enlace.__raw_recv
\* Mutant: the chunk is processed whether or not a callback is registered.
TemCallback_sempre(cb) == TRUE

\* The guard of the receive path: a chunk is processed only with a callback.
TemCallback(cb) == cb # None

\* Mutant: the chunk replaces the buffer instead of being appended to it.
acumulado_so_dados(buf, dados) == dados

\* self.buffer += dados: the bytes that are split.
acumulado(buf, dados) == buf \o dados

\* The segments the buffer splits into.
quadros(buf) == Split(buf, END)

\* Mutant: the unterminated remainder is forgotten.
resto_esquecido(buf) == <<>>

\* The unterminated remainder kept for the next chunk.
resto(buf) == quadros(buf)[Len(quadros(buf))]

\* Mutant: only the first terminated segment is processed.
quadros_completos_so_um(buf) == SubSeq(quadros(buf), 1, IF Len(quadros(buf)) > 1 THEN 1 ELSE 0)

\* The terminated segments, in stream order.
quadros_completos(buf) == SubSeq(quadros(buf), 1, Len(quadros(buf)) - 1)

\* Mutant: the two replacements are made in the other order.
datagrama_invertido(quadro_bruto) ==
    Replace(Replace(quadro_bruto, <<ESC, ESC_ESC>>, <<ESC>>), <<ESC, ESC_END>>, <<END>>)

\* Undoing the byte stuffing of one segment.
datagrama(quadro_bruto) ==
    Replace(Replace(quadro_bruto, <<ESC, ESC_END>>, <<END>>), <<ESC, ESC_ESC>>, <<ESC>>)

\* Mutant: empty segments are delivered like the others.
Ignorado_nunca(quadro_bruto) == FALSE

\* Whether a frame's loop body is entered: empty segments are skipped.
Ignorado(quadro_bruto) == quadro_bruto = <<>>

\* Mutant: no try/except, the exception leaves the loop.
Escapa_sem_try(levantou) == levantou

\* The try/except around one delivery: whether an exception raised by the
\* callback leaves the loop.
Escapa(levantou) == FALSE

\* The loop over the terminated segments. k is the ordinal of the next
\* callback invocation, falhas the ordinals at which the callback raises.
\* Result: the datagrams the callback was invoked with, and the error that
\* left __raw_recv ("nenhum" when none did).
RECURSIVE Laco(_, _, _)
Laco(qs, k, falhas) ==
    IF qs = <<>> THEN [chamadas |-> <<>>, erro |-> "nenhum"]
    ELSE IF Ignorado(Head(qs)) THEN Laco(Tail(qs), k, falhas)
    ELSE IF Escapa(k \in falhas)
         THEN [chamadas |-> <<datagrama(Head(qs))>>, erro |-> "Exception"]
         ELSE LET r == Laco(Tail(qs), k + 1, falhas)
              IN [chamadas |-> <<datagrama(Head(qs))>> \o r.chamadas, erro |-> r.erro]

\* Mutant: a delivery that raised makes the receive path drop its remainder.
BufferDepois_limpa(buf, falhas) == IF falhas # {} THEN <<>> ELSE resto(buf)

\* The buffer an Enlace is left with by __raw_recv: the remainder is stored
\* before the loop, and neither the loop nor its except clause writes it.
BufferDepois(buf, falhas) == resto(buf)

\* Mutant: one buffer, a class attribute, is shared by every Enlace.
Guardar_partilhado(bufs, e, novo) == [x \in DOMAIN bufs |-> novo]

\* self.buffer = ...: the attribute of the instance e is written, that of no
\* other Enlace.
Guardar(bufs, e, novo) == [bufs EXCEPT ![e] = novo]

\* ------------------------------------------------------------ CamadaEnlace
\* registrar_recebedor of either class: the single slot is overwritten.
Enlace_registrar_recebedor(antigo, novo) == novo

\* Mutant: the first registration wins.
CamadaEnlace_registrar_primeiro(antigo, novo) == IF antigo = None THEN novo ELSE antigo

CamadaEnlace_registrar_recebedor(antigo, novo) == novo

\* CamadaEnlace._callback: the upward invocations one decoded datagram causes.
CamadaEnlace_callback(cb, d) ==
    IF cb # None THEN <<[h |-> cb, d |-> d]>> ELSE <<>>

\* Mutant: an address that is no key falls back to some Enlace.
Busca_com_padrao(mapa, next_hop) ==
    IF next_hop \in DOMAIN mapa THEN <<mapa[next_hop]>>
    ELSE <<mapa[CHOOSE a \in DOMAIN mapa : TRUE]>>

\* Mutant: every Enlace is sent the frame.
Busca_difusao(mapa, next_hop) ==
    IF next_hop \in DOMAIN mapa
    THEN LET a == CHOOSE x \in DOMAIN mapa : x # next_hop
         IN <<mapa[next_hop], mapa[a]>>
    ELSE <<>>

\* self.enlaces[next_hop]: the Enlaces whose enviar is called (none, with a
\* KeyError, for an address that is no key).
Busca(mapa, next_hop) ==
    IF next_hop \in DOMAIN mapa THEN <<mapa[next_hop]>> ELSE <<>>

\* -------------------------------------------------------------------- state
VARIABLES
    enlaces,           \* CamadaEnlace.enlaces: next hop -> Enlace
    camada_callback,   \* CamadaEnlace.callback
    callback,          \* Enlace.callback, per Enlace
    buffer,            \* Enlace.buffer, per Enlace
    par,               \* per Enlace: the Enlace at the far end of its serial line, or None
    fio,               \* per Enlace: bytes written by the far end, not yet received
    fluxo,             \* history, per Enlace: every byte appended to its buffer
    entregues,         \* history, per Enlace: every datagram its callback was invoked with
    registro,          \* history: argument of the latest CamadaEnlace.registrar_recebedor
    precoce,           \* history, per Enlace of a CamadaEnlace: its buffer holds bytes
                       \* received while CamadaEnlace.callback was None
    threads,           \* per thread running __raw_recv: its position and its locals
    ult                \* the latest operation and what it did

vars == <<enlaces, camada_callback, callback, buffer, par, fio, fluxo, entregues, registro,
          precoce, threads, ult>>

Objs == DOMAIN buffer

Ult(op, e, dados, hop, chamadas, falhas, subidas, envios, erro) ==
    [op |-> op, enlace |-> e, dados |-> dados, next_hop |-> hop, cb |-> None,
     linha_ok |-> TRUE, precoce_antes |-> precoce,
     buffer_antes |-> buffer, callback_antes |-> callback,
     camada_callback_antes |-> camada_callback,
     chamadas |-> chamadas, falhas |-> falhas, subidas |-> subidas,
     envios |-> envios, erro |-> erro]

RECURSIVE Concat(_)
Concat(ss) == IF ss = <<>> THEN <<>> ELSE Head(ss) \o Concat(Tail(ss))

\* Construction of the Enlaces DOMAIN p: those of the map m are owned by a
\* CamadaEnlace, whose constructor registers its fan-in on them; those of
\* com were given the handler "h" by the code that built them; the others
\* have no callback yet.
Construido(m, p, com) ==
    LET es == DOMAIN p
    IN
    /\ enlaces = m
    /\ camada_callback = None
    /\ callback = [e \in es |-> IF \E a \in DOMAIN m : m[a] = e THEN FanIn
                                ELSE IF e \in com THEN "h" ELSE None]
    /\ buffer = [e \in es |-> <<>>]
    /\ par = p
    /\ fio = [e \in es |-> <<>>]
    /\ fluxo = [e \in es |-> <<>>]
    /\ entregues = [e \in es |-> <<>>]
    /\ registro = None
    /\ precoce = [e \in es |-> FALSE]
    /\ ult = [op |-> "init", enlace |-> None, dados |-> <<>>, next_hop |-> None, cb |-> None,
              linha_ok |-> TRUE, precoce_antes |-> [e \in es |-> FALSE],
              buffer_antes |-> [e \in es |-> <<>>],
              callback_antes |-> [e \in es |-> None],
              camada_callback_antes |-> None,
              chamadas |-> <<>>, falhas |-> {}, subidas |-> <<>>,
              envios |-> <<>>, erro |-> "nenhum"]

SemMapa == [a \in {} |-> None]

\* No thread is inside __raw_recv: every call runs to its end in one step.
SemThreads == [t \in {} |-> None]

\* ------------------------------------------------------------------ actions
\* Enlace.registrar_recebedor(cb)
EnlaceRegistrar(e, cb) ==
    /\ callback' = [callback EXCEPT ![e] = Enlace_registrar_recebedor(callback[e], cb)]
    /\ ult' = [Ult("Enlace.registrar_recebedor", e, <<>>, None, <<>>, {}, <<>>, <<>>, "nenhum")
                 EXCEPT !.cb = cb]
    /\ UNCHANGED <<enlaces, camada_callback, buffer, par, fio, fluxo, entregues, registro,
                   precoce, threads>>

\* CamadaEnlace.registrar_recebedor(cb)
CamadaRegistrar(cb) ==
    /\ camada_callback' = CamadaEnlace_registrar_recebedor(camada_callback, cb)
    /\ registro' = cb
    /\ ult' = [Ult("CamadaEnlace.registrar_recebedor", None, <<>>, None, <<>>, {}, <<>>, <<>>, "nenhum")
                 EXCEPT !.cb = cb]
    /\ UNCHANGED <<enlaces, callback, buffer, par, fio, fluxo, entregues, precoce, threads>>

\* The serial line's enviar of the Enlaces es, each with the frame q; ok
\* tells whether the line's enviar returns or raises. Frames reach the wire
\* of a modelled far end.
LinhaEnvia(es, q, ok) ==
    fio' = [e \in Objs |->
              IF ok /\ \E i \in 1..Len(es) : par[es[i]] = e
              THEN fio[e] \o q ELSE fio[e]]

CabeNoFio(es, q) ==
    \A i \in 1..Len(es) :
        par[es[i]] # None =>
            Len(fluxo[par[es[i]]]) + Len(fio[par[es[i]]]) + Len(q) <= MaxFio

\* Enlace.enviar(datagrama)
EnlaceEnviar(e, d, ok) ==
    /\ CabeNoFio(<<e>>, quadro(d))
    /\ LinhaEnvia(<<e>>, quadro(d), ok)
    /\ ult' = [Ult("Enlace.enviar", e, d, None, <<>>, {}, <<>>,
                   linha_serial_enviar(e, quadro(d), ok).envios,
                   linha_serial_enviar(e, quadro(d), ok).erro)
                 EXCEPT !.linha_ok = ok]
    /\ UNCHANGED <<enlaces, camada_callback, callback, buffer, par, fluxo, entregues, registro,
                   precoce, threads>>

\* CamadaEnlace.enviar(datagrama, next_hop)
CamadaEnviar(d, next_hop, ok) ==
    LET alvos == Busca(enlaces, next_hop)
    IN /\ CabeNoFio(alvos, quadro(d))
       /\ LinhaEnvia(alvos, quadro(d), ok)
       /\ ult' = [Ult("CamadaEnlace.enviar", None, d, next_hop, <<>>, {}, <<>>,
                      Concat([i \in 1..Len(alvos) |->
                                linha_serial_enviar(alvos[i], quadro(d), ok).envios]),
                      IF alvos = <<>> THEN "KeyError"
                      ELSE linha_serial_enviar(alvos[1], quadro(d), ok).erro)
                    EXCEPT !.linha_ok = ok]
       /\ UNCHANGED <<enlaces, camada_callback, callback, buffer, par, fluxo, entregues, registro,
                      precoce, threads>>

\* Whether an invocation of the callback of e can raise: an external handler
\* can; the fan-in raises only what the upward handler raises.
PodeLevantar(e) ==
    IF callback[e] = FanIn THEN camada_callback # None ELSE callback[e] # None

\* The sets of invocation ordinals at which the callback may raise while e
\* processes dados.
Falhas(e, dados) ==
    IF TemCallback(callback[e]) /\ PodeLevantar(e)
    THEN SUBSET (1..Len(SelectSeq(quadros_completos(acumulado(buffer[e], dados)),
                                  LAMBDA q : ~Ignorado(q))))
    ELSE {{}}

\* Whether, after e appends dados, its buffer holds bytes received while
\* the CamadaEnlace that owns e had no upward handler.
PrecoceDepois(e, dados, antes) ==
    LET cedo == callback[e] = FanIn /\ camada_callback = None
    IN IF \E i \in 1..Len(dados) : dados[i] = END
       THEN cedo /\ dados[Len(dados)] # END
       ELSE antes \/ (cedo /\ dados # <<>>)

\* Enlace.__raw_recv(dados), the callback raising at the ordinals falhas.
RawRecv(e, dados, falhas) ==
    IF ~TemCallback(callback[e])
    THEN /\ ult' = Ult("__raw_recv", e, dados, None, <<>>, falhas, <<>>, <<>>, "nenhum")
         /\ UNCHANGED <<enlaces, camada_callback, callback, buffer, par, fluxo, entregues, registro,
                        precoce, threads>>
    ELSE LET buf == acumulado(buffer[e], dados)
             r == Laco(quadros_completos(buf), 1, falhas)
             sub == IF callback[e] = FanIn
                    THEN Concat([i \in 1..Len(r.chamadas) |->
                                   CamadaEnlace_callback(camada_callback, r.chamadas[i])])
                    ELSE <<>>
         IN /\ buffer' = Guardar(buffer, e, BufferDepois(buf, falhas))
            /\ precoce' = [precoce EXCEPT ![e] = PrecoceDepois(e, dados, @)]
            /\ fluxo' = [fluxo EXCEPT ![e] = @ \o dados]
            /\ entregues' = [entregues EXCEPT ![e] = @ \o r.chamadas]
            /\ ult' = Ult("__raw_recv", e, dados, None, r.chamadas, falhas, sub, <<>>, r.erro)
            /\ UNCHANGED <<enlaces, camada_callback, callback, par, registro, threads>>

\* The bytes the Enlaces have accepted, all together.
RECURSIVE Aceitos(_)
Aceitos(es) ==
    IF es = {} THEN 0
    ELSE LET e == CHOOSE x \in es : TRUE IN Len(fluxo[e]) + Aceitos(es \ {e})

\* The serial line hands e arbitrary bytes.
Ruido(e, dados, falhas, max) ==
    /\ Aceitos(Objs) + Len(dados) <= max
    /\ RawRecv(e, dados, falhas)
    /\ UNCHANGED fio

\* The serial line hands e the first n bytes written by the far end.
Entrega(e, n) ==
    /\ n \in 1..Len(fio[e])
    /\ RawRecv(e, SubSeq(fio[e], 1, n), {})
    /\ fio' = [fio EXCEPT ![e] = SubSeq(@, n + 1, Len(@))]

\* ----------------------------------------------------------- specifications
\* A CamadaEnlace over two serial lines whose far ends are not modelled.
Vizinhos == {"10.0.0.1", "10.0.0.2"}
Enderecos == Vizinhos \cup {"10.0.0.9"}
MapaCamada == [a \in Vizinhos |-> IF a = "10.0.0.1" THEN "e1" ELSE "e2"]
Superiores == {None, "u1", "u2"}
DatagramasCamada == SeqsAte(BytesCamada, 1)

Init ==
    /\ Construido(MapaCamada, [e \in {"e1", "e2"} |-> None], {})
    /\ threads = SemThreads

Next ==
    \/ \E cb \in Superiores : CamadaRegistrar(cb)
    \/ \E d \in DatagramasCamada, a \in Enderecos, ok \in BOOLEAN : CamadaEnviar(d, a, ok)
    \/ \E d \in DatagramasCamada, e \in Objs, ok \in BOOLEAN : EnlaceEnviar(e, d, ok)
    \/ \E e \in Objs, dados \in ChunksCamada :
          \E falhas \in Falhas(e, dados) : Ruido(e, dados, falhas, MaxFluxoCamada)

Spec == Init /\ [][Next]_vars

\* One stand-alone Enlace fed arbitrary bytes.
InitEnlace ==
    /\ Construido(SemMapa, [e \in {"e"} |-> None], {})
    /\ threads = SemThreads

NextEnlace ==
    \/ \E cb \in {None, "h"} : EnlaceRegistrar("e", cb)
    \/ \E dados \in Chunks :
          \E falhas \in Falhas("e", dados) : Ruido("e", dados, falhas, MaxFluxo)

SpecEnlace == InitEnlace /\ [][NextEnlace]_vars

\* Two stand-alone Enlaces joined by a serial line: tx sends, rx receives.
InitFio ==
    /\ Construido(SemMapa, [e \in {"tx", "rx"} |-> IF e = "tx" THEN "rx" ELSE "tx"], {"rx"})
    /\ threads = SemThreads

NextFio ==
    \/ \E d \in {x \in Datagramas : Len(x) + 2 <= MaxFio - Len(fluxo["rx"]) - Len(fio["rx"])} :
          EnlaceEnviar("tx", d, TRUE)
    \/ \E n \in 1..MaxFio : Entrega("rx", n)

SpecFio == InitFio /\ [][NextFio]_vars

\* ------------------------------------------ two threads in one __raw_recv
\* The transport calls __raw_recv of the Enlace "e", which has the handler
\* "h", once from each of two threads. Nothing in the code excludes one call
\* while the other runs, so the calls interleave between any two accesses to
\* self.buffer.
Threads == {"t1", "t2"}

\* A thread before its call: pc is its position in __raw_recv, dados its
\* argument, soma the value of self.buffer + dados it computed, quadros its
\* local list of segments, pendentes the segments its loop has yet to visit.
Fora == [pc |-> "fora", dados |-> <<>>, soma |-> <<>>, quadros |-> <<>>, pendentes |-> <<>>]

\* t enters __raw_recv(dados): the guard on self.callback.
Chama(t, dados) ==
    /\ threads[t].pc = "fora"
    /\ threads' = [threads EXCEPT ![t] =
           [@ EXCEPT !.dados = dados,
                     !.pc = IF TemCallback(callback["e"]) THEN "soma" ELSE "fim"]]
    /\ fluxo' = [fluxo EXCEPT !["e"] = IF TemCallback(callback["e"]) THEN @ \o dados ELSE @]
    /\ UNCHANGED <<enlaces, camada_callback, callback, buffer, par, fio, entregues, registro,
                   precoce, ult>>

\* self.buffer += dados, first half: self.buffer is read and dados appended
\* to the value read.
Soma(t) ==
    /\ threads[t].pc = "soma"
    /\ threads' = [threads EXCEPT ![t] =
           [@ EXCEPT !.soma = acumulado(buffer["e"], threads[t].dados), !.pc = "grava"]]
    /\ UNCHANGED <<enlaces, camada_callback, callback, buffer, par, fio, fluxo, entregues,
                   registro, precoce, ult>>

\* self.buffer += dados, second half: the sum is stored.
Grava(t) ==
    /\ threads[t].pc = "grava"
    /\ buffer' = Guardar(buffer, "e", threads[t].soma)
    /\ threads' = [threads EXCEPT ![t] = [@ EXCEPT !.pc = "divide"]]
    /\ UNCHANGED <<enlaces, camada_callback, callback, par, fio, fluxo, entregues, registro,
                   precoce, ult>>

\* quadros = self.buffer.split(END)
Divide(t) ==
    /\ threads[t].pc = "divide"
    /\ threads' = [threads EXCEPT ![t] =
           [@ EXCEPT !.quadros = quadros(buffer["e"]), !.pc = "guarda"]]
    /\ UNCHANGED <<enlaces, camada_callback, callback, buffer, par, fio, fluxo, entregues,
                   registro, precoce, ult>>

\* self.buffer = quadros[-1]; quadros_completos = quadros[:-1]
Guarda(t) ==
    /\ threads[t].pc = "guarda"
    /\ LET qs == threads[t].quadros
       IN /\ buffer' = Guardar(buffer, "e", qs[Len(qs)])
          /\ threads' = [threads EXCEPT ![t] =
                 [@ EXCEPT !.pendentes = SubSeq(qs, 1, Len(qs) - 1), !.pc = "laco"]]
    /\ UNCHANGED <<enlaces, camada_callback, callback, par, fio, fluxo, entregues, registro,
                   precoce, ult>>

\* One turn of the loop: an empty segment is skipped, another is unescaped
\* and handed to the callback; after the last segment the call returns.
Itera(t) ==
    /\ threads[t].pc = "laco"
    /\ LET ps == threads[t].pendentes
       IN IF ps = <<>>
          THEN /\ threads' = [threads EXCEPT ![t] = [@ EXCEPT !.pc = "fim"]]
               /\ UNCHANGED entregues
          ELSE /\ threads' = [threads EXCEPT ![t] = [@ EXCEPT !.pendentes = Tail(ps)]]
               /\ entregues' = [entregues EXCEPT !["e"] =
                      IF Ignorado(Head(ps)) THEN @ ELSE Append(@, datagrama(Head(ps)))]
    /\ UNCHANGED <<enlaces, camada_callback, callback, buffer, par, fio, fluxo, registro,
                   precoce, ult>>

InitConc ==
    /\ Construido(SemMapa, [e \in {"e"} |-> None], {"e"})
    /\ threads = [t \in Threads |-> Fora]

NextConc ==
    \/ \E t \in Threads, dados \in ChunksConc : Chama(t, dados)
    \/ \E t \in Threads : Soma(t)
    \/ \E t \in Threads : Grava(t)
    \/ \E t \in Threads : Divide(t)
    \/ \E t \in Threads : Guarda(t)
    \/ \E t \in Threads : Itera(t)

SpecConc == InitConc /\ [][NextConc]_vars

\* ------------------------------------------------------------------- claims
\* The frame of every datagram that may be sent.
QuadroDe == [d \in Datagramas |-> quadro(d)]

\* The latest operation was a receive call of e.
Recebeu(e) == ult.op = "__raw_recv" /\ ult.enlace = e

\* ... made with a callback registered and an empty buffer.
RecebeuDoInicio(e) ==
    /\ Recebeu(e)
    /\ ult.callback_antes[e] # None
    /\ ult.buffer_antes[e] = <<>>

\* The datagrams among ds that are not empty, in order.
NaoVazios(ds) == SelectSeq(ds, LAMBDA d : d # <<>>)

\* C1 as stated: a frame made by enviar(d), received in one chunk by an
\* Enlace with a callback and an empty buffer, delivers d, for every d, the
\* empty datagram included.
C1_RoundTripOriginal ==
    \A d \in Datagramas :
        (RecebeuDoInicio("rx") /\ ult.dados = QuadroDe[d]) => ult.chamadas = <<d>>

\* C1 amended: a frame made by enviar(d), received in one chunk by an Enlace
\* with a callback and an empty buffer, delivers exactly d when d is not
\* empty, and delivers nothing when d is empty.
C1_RoundTrip ==
    \A d \in Datagramas :
        (RecebeuDoInicio("rx") /\ ult.dados = QuadroDe[d]) => ult.chamadas = NaoVazios(<<d>>)

C1_Witness ==
    /\ RecebeuDoInicio("rx")
    /\ ult.dados = quadro(<<ESC, ESC_END>>)
    /\ ult.chamadas = <<(<<ESC, ESC_END>>)>>

\* C2 as stated: once the bytes accepted by an Enlace, from construction and
\* in whatever chunks, are exactly the frame of d, its callback has been
\* invoked exactly once, with d, for every d, the empty datagram included.
C2_FragmentationOriginal ==
    \A d \in Datagramas :
        fluxo["rx"] = QuadroDe[d] => entregues["rx"] = <<d>>

\* C2 amended: once the bytes accepted by an Enlace, from construction and in
\* whatever chunks, are exactly the frame of d, its callback has been invoked
\* exactly once, with d, when d is not empty, and never when d is empty.
C2_Fragmentation ==
    \A d \in Datagramas :
        fluxo["rx"] = QuadroDe[d] => entregues["rx"] = NaoVazios(<<d>>)

C2_Witness ==
    /\ Recebeu("rx")
    /\ ult.buffer_antes["rx"] = <<1, ESC>>
    /\ ult.dados = <<ESC_END, 2, END>>
    /\ fluxo["rx"] = quadro(ExemploDatagrama)
    /\ entregues["rx"] = <<ExemploDatagrama>>

\* s begins with p.
Comeca(s, p) == Len(p) <= Len(s) /\ SubSeq(s, 1, Len(p)) = p

\* What follows the first n elements of s.
Depois(s, n) == SubSeq(s, n + 1, Len(s))

\* C3 as stated: the frames of d1 and d2 in one chunk, received with a
\* callback and an empty buffer, give two invocations, d1 then d2, for all
\* d1 and d2, empty datagrams included.
C3_ConcatenationOriginal ==
    RecebeuDoInicio("rx") =>
        \A d1 \in Datagramas :
            Comeca(ult.dados, QuadroDe[d1]) =>
                \A d2 \in Datagramas :
                    Depois(ult.dados, Len(QuadroDe[d1])) = QuadroDe[d2] =>
                        ult.chamadas = <<d1, d2>>

\* C3 amended: the frames of d1 and d2 in one chunk, received with a callback
\* and an empty buffer, give one invocation for each of d1, d2 that is not
\* empty, in that order: two invocations, d1 then d2, when neither is empty.
C3_Concatenation ==
    RecebeuDoInicio("rx") =>
        \A d1 \in Datagramas :
            Comeca(ult.dados, QuadroDe[d1]) =>
                \A d2 \in Datagramas :
                    Depois(ult.dados, Len(QuadroDe[d1])) = QuadroDe[d2] =>
                        ult.chamadas = NaoVazios(<<d1, d2>>)

C3_Witness ==
    /\ RecebeuDoInicio("rx")
    /\ ult.dados = quadro(<<END>>) \o quadro(<<ESC>>)
    /\ ult.chamadas = <<(<<END>>), (<<ESC>>)>>

\* Byte-wise reference encoder of a frame body.
RECURSIVE CorpoRef(_)
CorpoRef(d) ==
    IF d = <<>> THEN <<>>
    ELSE (IF Head(d) = ESC THEN <<ESC, ESC_ESC>>
          ELSE IF Head(d) = END THEN <<ESC, ESC_END>>
          ELSE <<Head(d)>>) \o CorpoRef(Tail(d))

\* C7: enviar(d) calls the serial line's enviar exactly once, with END, the
\* byte-wise escaped d, END; the empty datagram gives END END and 01 C0 02
\* gives C0 01 DB DC 02 C0.
C7_Encoding ==
    ult.op = "Enlace.enviar" =>
        /\ ult.envios = <<[enlace |-> ult.enlace,
                           quadro |-> <<END>> \o CorpoRef(ult.dados) \o <<END>>]>>
        /\ ult.dados = <<>> => ult.envios[1].quadro = <<192, 192>>
        /\ ult.dados = <<1, 192, 2>> => ult.envios[1].quadro = <<192, 1, 219, 220, 2, 192>>

C7_Witness ==
    /\ ult.op = "Enlace.enviar"
    /\ ult.dados = ExemploDatagrama
    /\ ult.envios = <<[enlace |-> "tx", quadro |-> <<192, 1, 219, 220, 2, 192>>]>>
    /\ fio["rx"] = <<192, 1, 219, 220, 2, 192>>

\* A chunk of two or more bytes, all of them END.
SoEND(dados) == Len(dados) >= 2 /\ \A i \in 1..Len(dados) : dados[i] = END

\* ... received with a callback registered, whatever the buffer holds.
RecebeuComCallback(e) == Recebeu(e) /\ ult.callback_antes[e] # None

\* No invocation of the callback of e, latest call or earlier, had an empty
\* datagram.
NuncaVazio(e) ==
    /\ \A i \in 1..Len(ult.chamadas) : ult.chamadas[i] # <<>>
    /\ \A i \in 1..Len(entregues[e]) : entregues[e][i] # <<>>

\* C4 as stated: the callback is never invoked with an empty datagram; a
\* chunk of two or more END bytes and nothing else gives no invocation, and
\* the chunk C0 C0 C0 41 C0 gives exactly one, with 41, whatever the buffer
\* holds when the chunk arrives.
C4_EmptyFramesOriginal ==
    /\ NuncaVazio("e")
    /\ (RecebeuComCallback("e") /\ SoEND(ult.dados)) => ult.chamadas = <<>>
    /\ (RecebeuComCallback("e") /\ ult.dados = ExemploChunk) => ult.chamadas = <<(<<65>>)>>

\* C4 amended: the callback is never invoked with an empty datagram; received
\* with an empty buffer, a chunk of two or more END bytes and nothing else
\* gives no invocation, and the chunk C0 C0 C0 41 C0 gives exactly one, with
\* 41.
C4_EmptyFrames ==
    /\ NuncaVazio("e")
    /\ (RecebeuDoInicio("e") /\ SoEND(ult.dados)) => ult.chamadas = <<>>
    /\ (RecebeuDoInicio("e") /\ ult.dados = ExemploChunk) => ult.chamadas = <<(<<65>>)>>

C4_Witness ==
    /\ RecebeuDoInicio("e")
    /\ ult.dados = <<192, 192, 192, 65, 192>>
    /\ ult.chamadas = <<(<<65>>)>>
    /\ buffer["e"] = <<>>

\* The terminated, non-empty segments of a stream, unescaped, in order.
Decodificados(buf) ==
    LET segs == SelectSeq(quadros_completos(buf), LAMBDA q : q # <<>>)
    IN [i \in 1..Len(segs) |-> datagrama(segs[i])]

\* C5: when the callback raises on frames completed by a chunk, __raw_recv
\* raises nothing and the callback is still invoked, in order, for every
\* non-empty frame the chunk completes.
C5_FaultIsolation ==
    (RecebeuComCallback("e") /\ ult.falhas # {}) =>
        /\ ult.erro = "nenhum"
        /\ ult.chamadas = Decodificados(ult.buffer_antes["e"] \o ult.dados)

C5_Witness ==
    /\ RecebeuComCallback("e")
    /\ ult.falhas = {1}
    /\ ult.chamadas = <<(<<END>>), (<<ESC_ESC>>)>>
    /\ ult.erro = "nenhum"

\* C10: a receive call of an Enlace without a callback changes nothing: the
\* chunk is not appended to the buffer and nothing is delivered.
C10_NoHandlerDiscard ==
    (Recebeu("e") /\ ult.callback_antes["e"] = None) =>
        /\ buffer = ult.buffer_antes
        /\ callback = ult.callback_antes
        /\ ult.chamadas = <<>>
        /\ ult.erro = "nenhum"

C10_Witness ==
    /\ Recebeu("e")
    /\ ult.callback_antes["e"] = None
    /\ ult.dados = <<ESC_END, END>>
    /\ buffer["e"] = <<ESC>>
    /\ entregues["e"] # <<>>

\* The latest operation was CamadaEnlace.enviar.
Enviou == ult.op = "CamadaEnlace.enviar"

\* No Enlace and no handler slot differs from before the latest operation.
EstadoIntacto ==
    /\ buffer = ult.buffer_antes
    /\ callback = ult.callback_antes
    /\ camada_callback = ult.camada_callback_antes

\* C6: CamadaEnlace.enviar to an address that is no key of the map fails
\* with a KeyError, calls no serial line's enviar and changes no buffer and
\* no handler.
C6_UnknownDestination ==
    (Enviou /\ ult.next_hop \notin DOMAIN enlaces) =>
        /\ ult.erro = "KeyError"
        /\ ult.envios = <<>>
        /\ EstadoIntacto

C6_Witness ==
    /\ Enviou
    /\ ult.next_hop = "10.0.0.9"
    /\ ult.erro = "KeyError"
    /\ buffer["e1"] # <<>>
    /\ camada_callback = "u1"

\* C8: CamadaEnlace.enviar to a configured next hop calls the enviar of the
\* serial line of the Enlace mapped to it exactly once, with the frame of the
\* datagram, calls no other serial line, and changes no buffer and no handler.
C8_Routing ==
    (Enviou /\ ult.next_hop \in DOMAIN enlaces) =>
        /\ ult.envios = <<[enlace |-> enlaces[ult.next_hop],
                           quadro |-> <<END>> \o CorpoRef(ult.dados) \o <<END>>]>>
        /\ EstadoIntacto

C8_Witness ==
    /\ Enviou
    /\ ult.next_hop = "10.0.0.2"
    /\ ult.dados = <<END>>
    /\ ult.envios = <<[enlace |-> "e2", quadro |-> <<END, ESC, ESC_END, END>>]>>
    /\ buffer["e1"] # <<>>

\* C9: every datagram an Enlace of the CamadaEnlace decodes is passed exactly
\* once, in the receive call that decodes it, to the handler of the latest
\* CamadaEnlace.registrar_recebedor; with no handler registered it is dropped
\* without error; no other operation invokes an upward handler.
C9_FanIn ==
    IF ult.op = "__raw_recv"
    THEN LET ds == Decodificados(ult.buffer_antes[ult.enlace] \o ult.dados)
         IN /\ ult.erro = "nenhum"
            /\ ult.subidas = IF registro = None THEN <<>>
                             ELSE [i \in 1..Len(ds) |-> [h |-> registro, d |-> ds[i]]]
    ELSE ult.subidas = <<>>

C9_Witness ==
    /\ ult.op = "__raw_recv"
    /\ registro = "u2"
    /\ ult.subidas = <<[h |-> "u2", d |-> <<1>>], [h |-> "u2", d |-> <<1>>]>>

C9_WitnessDropped ==
    /\ ult.op = "__raw_recv"
    /\ registro = None
    /\ ult.chamadas # <<>>
    /\ ult.subidas = <<>>

\* The latest operation called the enviar of a serial line, which raised.
LinhaFalhou ==
    /\ ult.op \in {"Enlace.enviar", "CamadaEnlace.enviar"}
    /\ ult.op = "CamadaEnlace.enviar" => ult.next_hop \in DOMAIN enlaces
    /\ ~ult.linha_ok

\* C11: when the serial line's enviar raises during Enlace.enviar or
\* CamadaEnlace.enviar, that error reaches the caller, the line's enviar was
\* called exactly once, and no buffer and no handler has changed.
C11_TransportFailure ==
    LinhaFalhou =>
        /\ ult.erro = "TransportError"
        /\ Len(ult.envios) = 1
        /\ ult.envios[1].quadro = <<END>> \o CorpoRef(ult.dados) \o <<END>>
        /\ EstadoIntacto

C11_Witness ==
    /\ LinhaFalhou
    /\ ult.op = "Enlace.enviar"
    /\ ult.enlace = "e1"
    /\ ult.erro = "TransportError"
    /\ buffer["e1"] # <<>>

\* The bytes of a frame between its first and its last.
Corpo(q) == SubSeq(q, 2, Len(q) - 1)

\* The bodies of the frames the latest Enlace.enviar handed to a serial line.
CorposEnviados ==
    IF ult.op = "Enlace.enviar"
    THEN {Corpo(ult.envios[i].quadro) : i \in 1..Len(ult.envios)}
    ELSE {}

\* C12 as stated: in the body of every frame made by Enlace.enviar, every
\* ESC_END and every ESC_ESC is immediately preceded by an ESC.
C12_EncoderInvariantOriginal ==
    \A c \in CorposEnviados :
        \A i \in 1..Len(c) :
            c[i] \in {ESC_END, ESC_ESC} => (i > 1 /\ c[i - 1] = ESC)

\* C12 amended: in the body of every frame made by Enlace.enviar, END does
\* not occur and every ESC is immediately followed by ESC_END or ESC_ESC; a
\* datagram byte equal to ESC_END or ESC_ESC is sent as it is, with no ESC
\* before it.
C12_EncoderInvariant ==
    \A c \in CorposEnviados :
        \A i \in 1..Len(c) :
            /\ c[i] # END
            /\ c[i] = ESC => (i < Len(c) /\ c[i + 1] \in {ESC_END, ESC_ESC})

C12_Witness ==
    /\ ult.op = "Enlace.enviar"
    /\ ult.dados = <<ESC, ESC_END>>
    /\ CorposEnviados = {<<ESC, ESC_ESC, ESC_END>>}

\* The positions of END in a byte sequence.
PosicoesEND(s) == {i \in 1..Len(s) : s[i] = END}

\* What follows the last END of a byte sequence: all of it when it has none.
AposUltimoEND(s) ==
    IF PosicoesEND(s) = {} THEN s
    ELSE LET u == CHOOSE i \in PosicoesEND(s) : \A j \in PosicoesEND(s) : j <= i
         IN SubSeq(s, u + 1, Len(s))

\* C13: whatever chunks an Enlace was given and whether or not its callback
\* raised, its buffer holds no END and is exactly what follows the last END
\* of the bytes it accepted (all of them when no END was accepted).
C13_BufferInvariant ==
    \A e \in Objs :
        /\ PosicoesEND(buffer[e]) = {}
        /\ buffer[e] = AposUltimoEND(fluxo[e])

C13_Witness ==
    /\ RecebeuComCallback("e")
    /\ ult.falhas = {1}
    /\ ult.buffer_antes["e"] = <<ESC>>
    /\ ult.dados = <<END, ESC_END>>
    /\ buffer["e"] = <<ESC_END>>

\* The segments of a stream, found by one scan: atual is the segment being
\* read.
RECURSIVE SegmentosRef(_, _)
SegmentosRef(s, atual) ==
    IF s = <<>> THEN <<atual>>
    ELSE IF Head(s) = END THEN <<atual>> \o SegmentosRef(Tail(s), <<>>)
    ELSE SegmentosRef(Tail(s), Append(atual, Head(s)))

\* The segments before the last that are not empty.
CompletosRef(s) ==
    LET segs == SegmentosRef(s, <<>>)
    IN SelectSeq(SubSeq(segs, 1, Len(segs) - 1), LAMBDA q : q # <<>>)

\* C14: the datagrams delivered by an Enlace and its buffer depend only on
\* the concatenation of the chunks it accepted: they are what splitting that
\* whole stream on END once gives, the non-empty segments before the last
\* unescaped and delivered in stream order, the last segment kept as buffer.
C14_ChunkingIndependence ==
    \A e \in Objs :
        LET segs == SegmentosRef(fluxo[e], <<>>)
            cs == CompletosRef(fluxo[e])
        IN /\ buffer[e] = segs[Len(segs)]
           /\ entregues[e] = [i \in 1..Len(cs) |-> datagrama(cs[i])]

C14_Witness ==
    /\ fluxo["e"] = <<ESC, ESC_END, END, ESC_ESC, END>>
    /\ ult.dados = <<ESC_ESC, END>>
    /\ ult.buffer_antes["e"] = <<>>
    /\ entregues["e"] = <<(<<END>>), (<<ESC_ESC>>)>>
    /\ buffer["e"] = <<>>

\* One-pass reference decoder of a segment: ESC ESC_END gives END, ESC
\* ESC_ESC gives ESC, any other byte, an ESC that starts no such pair
\* included, gives itself.
RECURSIVE DecodeRef(_)
DecodeRef(s) ==
    IF s = <<>> THEN <<>>
    ELSE IF Len(s) >= 2 /\ s[1] = ESC /\ s[2] = ESC_END
         THEN <<END>> \o DecodeRef(SubSeq(s, 3, Len(s)))
    ELSE IF Len(s) >= 2 /\ s[1] = ESC /\ s[2] = ESC_ESC
         THEN <<ESC>> \o DecodeRef(SubSeq(s, 3, Len(s)))
    ELSE <<s[1]>> \o DecodeRef(Tail(s))

\* A segment with an ESC that starts no escape pair.
TemESCIsolado(q) ==
    \E i \in 1..Len(q) :
        q[i] = ESC /\ (i = Len(q) \/ q[i + 1] \notin {ESC_END, ESC_ESC})

\* C16: for every non-empty completed segment, well-formed or not, the
\* receive path raises nothing and delivers the segment with each ESC ESC_END
\* pair turned into END, each ESC ESC_ESC pair into ESC and every other byte,
\* an isolated ESC included, unchanged.
C16_MalformedTolerance ==
    RecebeuComCallback("e") =>
        LET cs == CompletosRef(ult.buffer_antes["e"] \o ult.dados)
        IN /\ ult.erro = "nenhum"
           /\ ult.chamadas = [i \in 1..Len(cs) |-> DecodeRef(cs[i])]

C16_Witness ==
    /\ RecebeuComCallback("e")
    /\ ult.buffer_antes["e"] = <<ESC, ESC>>
    /\ ult.dados = <<ESC_END, END>>
    /\ TemESCIsolado(<<ESC, ESC, ESC_END>>)
    /\ ult.chamadas = <<(<<ESC, END>>)>>

C16_WitnessFinal ==
    /\ RecebeuComCallback("e")
    /\ ult.buffer_antes["e"] = <<ESC_ESC, ESC>>
    /\ ult.dados = <<END>>
    /\ ult.chamadas = <<(<<ESC_ESC, ESC>>)>>

\* C17: after a receive call in which the callback raised, the buffer and
\* the callback of the Enlace are those the same call leaves when the
\* callback does not raise: the END-free tail of buffer and chunk, and the
\* callback registered before.
C17_HandlerFailureState ==
    (RecebeuComCallback("e") /\ ult.falhas # {}) =>
        /\ buffer["e"] = AposUltimoEND(ult.buffer_antes["e"] \o ult.dados)
        /\ callback = ult.callback_antes

C17_Witness ==
    /\ RecebeuComCallback("e")
    /\ ult.falhas = {1, 2}
    /\ ult.dados = DoisQuadros
    /\ ult.buffer_antes["e"] = <<>>
    /\ buffer["e"] = <<>>
    /\ callback["e"] = "h"

C17_WitnessResto ==
    /\ RecebeuComCallback("e")
    /\ ult.falhas = {1}
    /\ buffer["e"] = <<ESC>>

\* ---------------------------------------------------------------- C18
\* The datagrams the stream s completes, decoded in one pass.
DatagramasDe(s) ==
    LET cs == CompletosRef(s) IN [i \in 1..Len(cs) |-> DecodeRef(cs[i])]

\* C18: in a CamadaEnlace with two Enlaces, a call of __raw_recv on one
\* leaves the buffer of the other and the callback of both as they were, and
\* whatever the interleaving of the calls, each Enlace's buffer and the
\* datagrams it handed upward are those of the bytes received on that Enlace
\* alone.
C18_LinkIsolation ==
    /\ ult.op = "__raw_recv" =>
           /\ \A o \in Objs \ {ult.enlace} : buffer[o] = ult.buffer_antes[o]
           /\ callback = ult.callback_antes
           /\ \A i \in 1..Len(ult.subidas) :
                  ult.subidas[i].d =
                      DatagramasDe(ult.buffer_antes[ult.enlace] \o ult.dados)[i]
    /\ \A e \in Objs :
           /\ buffer[e] = AposUltimoEND(fluxo[e])
           /\ entregues[e] = DatagramasDe(fluxo[e])

\* e2 completes a frame while e1 holds a partial one: e1's byte stays where
\* it was and the datagram handed upward is e2's.
C18_Witness ==
    /\ ult.op = "__raw_recv"
    /\ ult.enlace = "e2"
    /\ ult.buffer_antes = [e \in {"e1", "e2"} |-> <<1>>]
    /\ ult.dados = <<1, END>>
    /\ buffer = [e \in {"e1", "e2"} |-> IF e = "e1" THEN <<1>> ELSE <<>>]
    /\ ult.subidas = <<[h |-> "u1", d |-> <<1, 1>>]>>

\* ---------------------------------------------------------------- C19
\* C19: every Enlace of a CamadaEnlace has the fan-in as callback at all
\* times; a call of __raw_recv made while no upward handler is registered
\* still appends its bytes to the buffer; and when the END of a frame whose
\* first bytes came while no upward handler was registered arrives after
\* CamadaEnlace.registrar_recebedor(h), h is invoked once with the whole
\* datagram, the early bytes included.
C19_BufferingBeforeRegistration ==
    /\ \A a \in DOMAIN enlaces : callback[enlaces[a]] # None
    /\ (ult.op = "__raw_recv" /\ ult.camada_callback_antes = None) =>
           /\ buffer[ult.enlace] =
                  AposUltimoEND(ult.buffer_antes[ult.enlace] \o ult.dados)
           /\ ult.subidas = <<>>
    /\ (/\ ult.op = "__raw_recv"
        /\ ult.precoce_antes[ult.enlace]
        /\ ult.camada_callback_antes # None
        /\ \E i \in 1..Len(ult.dados) : ult.dados[i] = END) =>
           LET antes == ult.buffer_antes[ult.enlace]
               ds    == DatagramasDe(antes \o ult.dados)
           IN /\ antes # <<>>
              /\ ult.subidas =
                     [i \in 1..Len(ds) |-> [h |-> ult.camada_callback_antes, d |-> ds[i]]]
              /\ Len(ds) >= 1
              /\ SubSeq(ds[1], 1, Len(antes)) = antes

\* The byte 1 came to e1 before registrar_recebedor("u1"), the byte 1 and
\* the END after it: "u1" gets the datagram 1 1 once.
C19_Witness ==
    /\ ult.op = "__raw_recv"
    /\ ult.enlace = "e1"
    /\ ult.precoce_antes["e1"]
    /\ ult.camada_callback_antes = "u1"
    /\ ult.buffer_antes["e1"] = <<1>>
    /\ ult.dados = <<1, END>>
    /\ ult.subidas = <<[h |-> "u1", d |-> <<1, 1>>]>>
    /\ buffer["e1"] = <<>>

\* ---------------------------------------------------------------- C15
\* What two calls of __raw_recv made one after the other, with d1 and then
\* d2, leave behind on an Enlace with an empty buffer: the buffer and the
\* datagrams handed to the callback.
UmaAposOutra(d1, d2) ==
    LET b1 == resto(acumulado(<<>>, d1))
        c1 == Decodificados(acumulado(<<>>, d1))
    IN [buffer |-> resto(acumulado(b1, d2)),
        entregues |-> c1 \o Decodificados(acumulado(b1, d2))]

\* Both threads have returned from __raw_recv.
AmbasTerminaram == \A t \in Threads : threads[t].pc = "fim"

\* C15: when __raw_recv of one Enlace was called from two threads at once,
\* the buffer and the datagrams delivered after both calls are those of the
\* two calls made one after the other in one of the two orders.
C15_SerializedReceive ==
    AmbasTerminaram =>
        LET agora == [buffer |-> buffer["e"], entregues |-> entregues["e"]]
        IN \/ agora = UmaAposOutra(threads["t1"].dados, threads["t2"].dados)
           \/ agora = UmaAposOutra(threads["t2"].dados, threads["t1"].dados)

\* The two calls did not overlap and left what the claim says.
C15_Witness ==
    /\ AmbasTerminaram
    /\ threads["t1"].dados = <<1>>
    /\ threads["t2"].dados = <<2, END>>
    /\ buffer["e"] = <<>>
    /\ entregues["e"] = <<<<1, 2>>>>

\* t1 stored the tail it had split before t2 ran: the byte 1, already
\* delivered in t2's datagram, is in the buffer again.
C15_Duplicado ==
    /\ AmbasTerminaram
    /\ threads["t1"].dados = <<1>>
    /\ threads["t2"].dados = <<2, END>>
    /\ buffer["e"] = <<1>>
    /\ entregues["e"] = <<<<1, 2>>>>


====
